---- MODULE Spec2Model ----
(***************************************************************************)
(* Model of the redirect tracer checkUrl (utils/redirectUtils.ts).         *)
(*                                                                         *)
(* One behaviour is one invocation of checkUrl.  The asynchronous function *)
(* is cut at its await points: the action checkUrl runs the code from the  *)
(* call to the first axios.get, RespondSingle / RespondLoop deliver the    *)
(* outcome of the request in flight and run the code up to the next        *)
(* axios.get or to the return.                                             *)
(*                                                                         *)
(* Strings (urls, Location values) are records that keep the structure the *)
(* code looks at: the scheme prefix tested by startsWith, and the parts    *)
(* that new URL(location, base).href resolves and normalises.              *)
(*                                                                         *)
(* RouteSpec puts the POST handler of app/api/check-url/route.ts around    *)
(* the trace: POST parses the body and calls checkUrl, PostResume runs the *)
(* code after the awaited call.                                            *)
(*                                                                         *)
(* ConcSpec runs two invocations of checkUrl on the one event loop: the    *)
(* trace variables hold the locals of the invocation that runs, parked     *)
(* holds the locals of the other one, Switch hands the thread over.  The   *)
(* server and the module-level defaultOptions object are shared.           *)
(*                                                                         *)
(* StatusSpec applies the two pure status helpers of redirectUtils.ts to   *)
(* the status code of a rendered step.                                     *)
(*                                                                         *)
(* UiSpec is the browser side: UrlInputForm (components/UrlInputForm.tsx)  *)
(* with its two submit handlers and Home (app/page.tsx) with               *)
(* handleCheckUrl, cut at its two awaits.  The text of an input is a       *)
(* sequence of tokens (a scheme prefix, a host, a blank, a line break), so *)
(* that startsWith, split, trim and the prepending of "https://" are       *)
(* computed.  UiLiveSpec adds that the fetch in flight settles.            *)
(***************************************************************************)
EXTENDS Integers, Sequences, FiniteSets, TLC

VARIABLES pc, url, options, mergedOptions, result, currentUrl, redirectCount,
          maxRedirects, server, requests, exitPath,
          postPc, body, httpResponse,
          moduleDefaults, current, parked, overlapped,
          badge, form, submitted, page

\* the state of the POST handler
routeVars == <<postPc, body, httpResponse>>

\* the second invocation of ConcSpec, and which one runs
concVars == <<current, parked, overlapped>>

\* what the browser holds: the status badge of a rendered step, the state
\* of UrlInputForm, the arguments of its onSubmit calls, the state of Home
viewVars == <<badge, form, submitted, page>>

vars == <<pc, url, options, mergedOptions, result, currentUrl, redirectCount,
          maxRedirects, server, requests, exitPath, routeVars,
          moduleDefaults, concVars, viewVars>>

\* ------------------------------------------------------------------ bounds
\* largest maxRedirects value a caller passes in options
MaxOptRedirects == 3

\* ------------------------------------------------------------ string model
Str(kind, scheme, host, path, up, bare) ==
  [kind |-> kind, scheme |-> scheme, host |-> host, path |-> path,
   up |-> up, bare |-> bare]

\* JS undefined (an absent header, an unset field)
Undefined == Str("undefined", "", "", <<>>, 0, FALSE)
\* the empty string ""
EmptyStr == Str("empty", "", "", <<>>, 0, FALSE)
\* a truthy value that is not a string (a JSON number in the request body)
NonString == Str("nonstring", "", "", <<>>, 0, FALSE)
\* "http://": passes the prefix test, is no URL (new URL and axios reject it)
BadHttp == Str("badhttp", "http", "", <<>>, 0, FALSE)
\* scheme://host/path ; bare = TRUE is the form without the root slash,
\* "https://a.example", which href writes as "https://a.example/"
Abs(scheme, host, path, bare) == Str("abs", scheme, host, path, 0, bare)
\* "//host/path"
ProtoRel(host, path) == Str("protorel", "", host, path, 0, FALSE)
\* "../" repeated up times, then path: "../z", "z"
Rel(up, path) == Str("rel", "", "", path, up, FALSE)

A0 == Abs("https", "a.example", <<>>, TRUE)
A1 == Abs("https", "a.example", <<>>, FALSE)
AXY == Abs("https", "a.example", <<"x", "y">>, FALSE)
AZ == Abs("https", "a.example", <<"z">>, FALSE)
B0 == Abs("https", "b.example", <<>>, TRUE)
B1 == Abs("https", "b.example", <<>>, FALSE)
HB1 == Abs("http", "b.example", <<>>, FALSE)

\* the url values a caller passes
Urls == {EmptyStr, NonString, Rel(0, <<"z">>), BadHttp, A0, A1, AXY, HB1}

\* the values of the Location response header
Locations == {Undefined, EmptyStr, B0, A1, AXY, Rel(1, <<"z">>),
              ProtoRel("b.example", <<>>), BadHttp}

Statuses == {200, 301, 404}

\* variant: the prefix test lets every non-empty string pass
StartsWithAnything(s) == s.kind # "empty"

\* url.startsWith('http://') || url.startsWith('https://')
StartsWithHttp(s) ==
  \/ s.kind = "badhttp"
  \/ s.kind = "abs" /\ s.scheme \in {"http", "https"}

\* !s for a string or undefined
Falsy(s) == s.kind \in {"undefined", "empty"}

Max(a, b) == IF a > b THEN a ELSE b

\* variant: a relative Location is appended to the base as text
ResolveByConcat(location, base) ==
  CASE location.kind = "abs" ->
         [ok |-> TRUE,
          href |-> Abs(location.scheme, location.host, location.path, FALSE)]
    [] location.kind = "protorel" ->
         [ok |-> TRUE,
          href |-> Abs(base.scheme, location.host, location.path, FALSE)]
    [] location.kind = "rel" ->
         [ok |-> TRUE,
          href |-> Abs(base.scheme, base.host, base.path \o location.path, FALSE)]
    [] location.kind = "empty" ->
         [ok |-> TRUE,
          href |-> Abs(base.scheme, base.host, base.path, FALSE)]
    [] OTHER -> [ok |-> FALSE, href |-> Undefined]

\* new URL(location, base).href : ok = FALSE when the constructor throws
Resolve(location, base) ==
  LET dir == IF base.path = <<>> THEN <<>>
             ELSE SubSeq(base.path, 1, Len(base.path) - 1)
      kept == SubSeq(dir, 1, Max(0, Len(dir) - location.up))
  IN CASE location.kind = "abs" ->
            [ok |-> TRUE,
             href |-> Abs(location.scheme, location.host, location.path, FALSE)]
       [] location.kind = "protorel" ->
            [ok |-> TRUE,
             href |-> Abs(base.scheme, location.host, location.path, FALSE)]
       [] location.kind = "rel" ->
            [ok |-> TRUE,
             href |-> Abs(base.scheme, base.host, kept \o location.path, FALSE)]
       [] location.kind = "empty" ->
            [ok |-> TRUE,
             href |-> Abs(base.scheme, base.host, base.path, FALSE)]
       [] OTHER -> [ok |-> FALSE, href |-> Undefined]

\* ------------------------------------------------------------ checkUrl data
\* defaultOptions (userAgent and timeout do not steer the control flow)
defaultOptions == [followRedirects |-> TRUE, maxRedirects |-> 20]

\* an options object: has* tells whether the key is present
Opt(hasFollow, follow, hasMax, max) ==
  [hasFollow |-> hasFollow, followRedirects |-> follow,
   hasMax |-> hasMax, maxRedirects |-> max]

OptionsSet ==
  {Opt(FALSE, TRUE, FALSE, 0)} \cup
  {Opt(hf, f, TRUE, m) : hf \in {TRUE}, f \in BOOLEAN,
                         m \in {-1} \cup (0 .. MaxOptRedirects)} \cup
  {Opt(FALSE, TRUE, TRUE, m) : m \in 1 .. MaxOptRedirects}

\* the keys of o laid over those of d
Spread(d, o) ==
  [followRedirects |-> IF o.hasFollow THEN o.followRedirects
                       ELSE d.followRedirects,
   maxRedirects |-> IF o.hasMax THEN o.maxRedirects ELSE d.maxRedirects]

\* variant: the caller's followRedirects is dropped in the merge
MergeKeepsDefaultFollow(o) ==
  [followRedirects |-> moduleDefaults.followRedirects,
   maxRedirects |-> IF o.hasMax THEN o.maxRedirects
                    ELSE moduleDefaults.maxRedirects]

\* { ...defaultOptions, ...options } : a new object from the module-level
\* defaultOptions as it is at the call
Merge(o) == Spread(moduleDefaults, o)

\* variant: Object.assign(defaultOptions, options) writes into the defaults
DefaultsAssigned(d, o) == Spread(d, o)

\* the module-level defaultOptions after the merge: the spread only reads it
DefaultsAfterMerge(d, o) == d

\* result.error : undefined, or a string; n is the number the template
\* literal of the redirect-limit message interpolates
NoError == [set |-> FALSE, text |-> "", n |-> 0]
Err(text) == [set |-> TRUE, text |-> text, n |-> 0]
InvalidUrlMessage == "Invalid URL. Please include the protocol (http:// or https://)"
CircularMessage == "Circular redirect detected"
MaxRedirectsMessage(n) ==
  [set |-> TRUE, text |-> "Maximum number of redirects (${n}) reached", n |-> n]

\* what a request can come to: a response of any status (validateStatus
\* accepts all), a fault without response, a fault that carries a response
Responses ==
  [kind : {"response"}, status : Statuses, location : Locations, message : {""}]
Faults ==
  [kind : {"fault"}, status : {0}, location : {Undefined},
   message : {"timeout of 10000ms exceeded", "getaddrinfo ENOTFOUND"}]
FaultResponses ==
  [kind : {"faultResponse"}, status : {200, 404}, location : {Undefined},
   message : {"stream has been aborted"}]
Outcomes == Responses \cup Faults \cup FaultResponses

\* the outcomes a request to u may have: the server is static, so a URL
\* requested before answers as before; "http://" cannot be requested at all
OutcomesOf(u) ==
  IF u \in DOMAIN server THEN {server[u]}
  ELSE IF u.kind = "badhttp" THEN Faults
  ELSE Outcomes

\* variant: the new step is put in front of the list
Unshift(steps, step) == <<step>> \o steps

\* result.steps.push(step)
Push(steps, step) == Append(steps, step)

\* the RedirectStep built from a response
Step(u, o) == [url |-> u, statusCode |-> o.status, location |-> o.location]

\* a thrown value as the catch block inspects it
Thrown(axios, isError, message, hasResponse, status, configUrl) ==
  [axios |-> axios, isError |-> isError, message |-> message,
   hasResponse |-> hasResponse, status |-> status, configUrl |-> configUrl]
PlainError(message) == Thrown(FALSE, TRUE, message, FALSE, 0, Undefined)
AxiosError(o, u) ==
  Thrown(TRUE, TRUE, o.message, o.kind = "faultResponse", o.status, u)

\* how a piece of code ends: it returns the result, or it throws
Return(res, path) == [kind |-> "return", value |-> res, path |-> path]
Throw(res, path) == [kind |-> "throw", value |-> res, path |-> path]

\* variant: the catch block never records the response a fault carries
CatchDropsResponse(res, e, u, path) ==
  Return([res EXCEPT
            !.error = IF e.axios \/ e.isError THEN Err(e.message)
                      ELSE Err("An unknown error occurred"),
            !.finalUrl = IF Len(res.steps) > 0 THEN res.steps[Len(res.steps)].url
                         ELSE u,
            !.redirectCount = IF Len(res.steps) - 1 > 0 THEN Len(res.steps) - 1
                              ELSE 0],
         path)

\* variant: the message of an axios error is replaced by the generic one
CatchGenericMessage(res, e, u, path) ==
  LET steps1 == IF e.axios /\ e.hasResponse
                THEN Append(res.steps,
                            [url |-> IF Falsy(e.configUrl) THEN u ELSE e.configUrl,
                             statusCode |-> e.status,
                             location |-> Undefined])
                ELSE res.steps
  IN Return([res EXCEPT
               !.error = IF e.axios \/ ~e.isError
                         THEN Err("An unknown error occurred")
                         ELSE Err(e.message),
               !.steps = steps1,
               !.finalUrl = IF Len(steps1) > 0 THEN steps1[Len(steps1)].url ELSE u,
               !.redirectCount = IF Len(steps1) - 1 > 0 THEN Len(steps1) - 1 ELSE 0],
            path)

\* the catch block of checkUrl
Catch(res, e, u, path) ==
  LET steps1 == IF e.axios /\ e.hasResponse
                THEN Push(res.steps,
                            [url |-> IF Falsy(e.configUrl) THEN u ELSE e.configUrl,
                             statusCode |-> e.status,
                             location |-> Undefined])
                ELSE res.steps
      error1 == IF e.axios THEN Err(e.message)
                ELSE IF e.isError THEN Err(e.message)
                ELSE Err("An unknown error occurred")
  IN Return([res EXCEPT
               !.error = error1,
               !.steps = steps1,
               !.finalUrl = IF Len(steps1) > 0 THEN steps1[Len(steps1)].url ELSE u,
               !.redirectCount = IF Len(steps1) - 1 > 0 THEN Len(steps1) - 1 ELSE 0],
            path)

\* variant: the countdown always starts at 20
LoopBudgetOfDefault(merged) == 20

\* let maxRedirects = mergedOptions.maxRedirects || 20
LoopBudget(merged) ==
  IF merged.maxRedirects = 0 THEN 20 ELSE merged.maxRedirects

\* variant: a 4xx/5xx response that has a Location is followed
EndOfChainFollowsErrors(o) == o.status < 300 \/ Falsy(o.location)

\* the test that ends the chain: not a redirect, or no Location to follow
EndOfChain(o) == o.status < 300 \/ o.status >= 400 \/ Falsy(o.location)

\* variant: the loop test compares with the previous step only
VisitedLastOnly(steps, u) == steps # <<>> /\ steps[Len(steps)].url = u

\* result.steps.some(s => s.url === u)
Visited(steps, u) == \E i \in 1 .. Len(steps) : steps[i].url = u

\* variant: the comparison is strict
ExhaustedStrict(mr, rc, merged) == mr = 0 /\ rc > merged.maxRedirects

\* the test after the loop for the exhausted redirect limit
Exhausted(mr, rc, merged) == mr = 0 /\ rc >= merged.maxRedirects

\* variant: the message interpolates the local countdown
LimitMessageOfCountdown(mr, merged) == MaxRedirectsMessage(mr)

\* the message of the exhausted limit; mr is the local countdown
LimitMessage(mr, merged) == MaxRedirectsMessage(merged.maxRedirects)

\* variant: the returned count is derived from the hop list, as in the catch
AfterLoopCountsHops(res, mr, rc, merged, u, path) ==
  LET exhausted == Exhausted(mr, rc, merged)
      res1 == IF exhausted
              THEN [res EXCEPT !.error = LimitMessage(mr, merged)]
              ELSE res
      path1 == IF exhausted /\ path = "guard" THEN "exhausted" ELSE path
  IN IF res1.steps = <<>>
     THEN Catch(res1, PlainError("Cannot read properties of undefined (reading 'url')"),
                u, "noSteps")
     ELSE Return([res1 EXCEPT !.finalUrl = res1.steps[Len(res1.steps)].url,
                              !.redirectCount = Len(res1.steps) - 1],
                 path1)

\* variant: finalUrl keeps its initial value, the input url
AfterLoopKeepsFinalUrl(res, mr, rc, merged, u, path) ==
  LET res1 == IF Exhausted(mr, rc, merged)
              THEN [res EXCEPT !.error = LimitMessage(mr, merged)]
              ELSE res
  IN IF res1.steps = <<>>
     THEN Catch(res1, PlainError("Cannot read properties of undefined (reading 'url')"),
                u, "noSteps")
     ELSE Return([res1 EXCEPT !.redirectCount = rc],
                 IF Exhausted(mr, rc, merged) /\ path = "guard" THEN "exhausted"
                 ELSE path)

\* the code after the while loop, up to the return
AfterLoop(res, mr, rc, merged, u, path) ==
  LET exhausted == Exhausted(mr, rc, merged)
      res1 == IF exhausted
              THEN [res EXCEPT !.error = LimitMessage(mr, merged)]
              ELSE res
      path1 == IF exhausted /\ path = "guard" THEN "exhausted" ELSE path
  IN IF res1.steps = <<>>
     THEN Catch(res1, PlainError("Cannot read properties of undefined (reading 'url')"),
                u, "noSteps")
     ELSE Return([res1 EXCEPT !.finalUrl = res1.steps[Len(res1.steps)].url,
                              !.redirectCount = rc],
                 path1)

\* the locals of an invocation of checkUrl that is not running, and those
\* of an invocation not called yet
Locals(p, u, o, m, r, c, rc, mr, rq, x) ==
  [pc |-> p, url |-> u, options |-> o, mergedOptions |-> m, result |-> r,
   currentUrl |-> c, redirectCount |-> rc, maxRedirects |-> mr,
   requests |-> rq, exitPath |-> x]
NotCalled ==
  Locals("idle", Undefined, Opt(FALSE, TRUE, FALSE, 0), defaultOptions,
         [initialUrl |-> Undefined, finalUrl |-> Undefined, steps |-> <<>>,
          redirectCount |-> 0, error |-> NoError],
         Undefined, 0, 0, <<>>, "none")

\* ------------------------------------------------------------ the POST route
\* a request body: unparseable text, the JSON null, or an object whose url
\* and options keys may be absent (url = Undefined, options without keys)
Body(parses, isNull, u, o) ==
  [parses |-> parses, isNull |-> isNull, url |-> u, options |-> o]
NoBody == Body(FALSE, FALSE, Undefined, Opt(FALSE, TRUE, FALSE, 0))
Bodies ==
  {NoBody, Body(TRUE, TRUE, Undefined, Opt(FALSE, TRUE, FALSE, 0))} \cup
  {Body(TRUE, FALSE, u, o) : u \in Urls \cup {Undefined}, o \in OptionsSet}

\* NextResponse.json(...): status, the error of an error body, the result
EmptyResult == [initialUrl |-> Undefined, finalUrl |-> Undefined, steps |-> <<>>,
                redirectCount |-> 0, error |-> NoError]
HttpResponse(status, error, hasResult, res) ==
  [status |-> status, error |-> error, hasResult |-> hasResult, result |-> res]
NoResponse == HttpResponse(0, "", FALSE, EmptyResult)
BadRequest == HttpResponse(400, "URL is required", FALSE, EmptyResult)
ServerError(message) == HttpResponse(500, message, FALSE, EmptyResult)

\* variant: an error inside the trace turns into a 500
RespondByError(res) ==
  HttpResponse(IF res.error.set THEN 500 ELSE 200, "", TRUE, res)

\* return NextResponse.json(result)
Respond(res) == HttpResponse(200, "", TRUE, res)

\* variant: only an absent url key is refused
UrlKeyAbsent(b) == b.url.kind = "undefined"

\* if (!url)
UrlMissing(b) == Falsy(b.url)

\* --------------------------------------------------------- status helpers
\* largest status code handed to the helpers
MaxStatusCode == 800
StatusCodes == (0 - 1) .. MaxStatusCode

\* the entries of statusMap
StatusMapCodes ==
  {200, 201, 202, 204, 300, 301, 302, 303, 304, 307, 308,
   400, 401, 403, 404, 405, 408, 429, 500, 501, 502, 503, 504}
statusMap(c) ==
  CASE c = 200 -> "OK"
    [] c = 201 -> "Created"
    [] c = 202 -> "Accepted"
    [] c = 204 -> "No Content"
    [] c = 300 -> "Multiple Choices"
    [] c = 301 -> "Moved Permanently"
    [] c = 302 -> "Found"
    [] c = 303 -> "See Other"
    [] c = 304 -> "Not Modified"
    [] c = 307 -> "Temporary Redirect"
    [] c = 308 -> "Permanent Redirect"
    [] c = 400 -> "Bad Request"
    [] c = 401 -> "Unauthorized"
    [] c = 403 -> "Forbidden"
    [] c = 404 -> "Not Found"
    [] c = 405 -> "Method Not Allowed"
    [] c = 408 -> "Request Timeout"
    [] c = 429 -> "Too Many Requests"
    [] c = 500 -> "Internal Server Error"
    [] c = 501 -> "Not Implemented"
    [] c = 502 -> "Bad Gateway"
    [] c = 503 -> "Service Unavailable"
    [] c = 504 -> "Gateway Timeout"

\* statusMap[statusCode] || 'Unknown Status'
getStatusDescription(statusCode) ==
  IF statusCode \in StatusMapCodes THEN statusMap(statusCode)
  ELSE "Unknown Status"

\* the if / else-if chain; its last test has no upper limit
getStatusCodeClass(statusCode) ==
  IF statusCode >= 200 /\ statusCode < 300 THEN "status-2xx"
  ELSE IF statusCode >= 300 /\ statusCode < 400 THEN "status-3xx"
  ELSE IF statusCode >= 400 /\ statusCode < 500 THEN "status-4xx"
  ELSE IF statusCode >= 500 THEN "status-5xx"
  ELSE ""

\* the badge of a step: its class and its text; none before a step is shown
Badge(shown, statusCode, className, text) ==
  [shown |-> shown, statusCode |-> statusCode, className |-> className,
   text |-> text]
NoBadge == Badge(FALSE, 0, "", "")

\* ------------------------------------------------------ texts of the form
\* the tokens of a text: scheme prefixes, hosts, a blank, a line break
Schemes == {"http://", "https://"}
Hosts == {"a.example", "b.example", "mail.google.com", "twitter.com",
          "bit.ly/2UQR3aw"}
Blank == " "
LineBreak == "\n"

\* quickActionUrls
quickActionUrls == {<<"mail.google.com">>, <<"twitter.com">>, <<"bit.ly/2UQR3aw">>}

\* what a user types into the url input
UrlTexts ==
  {<<>>, <<"a.example">>, <<"http://", "a.example">>, <<"https://", "a.example">>,
   <<"ftp://", "a.example">>, <<Blank, "https://", "a.example">>, <<Blank>>,
   <<"http://">>}

\* what a user types into the batch text area
BatchTexts ==
  {<<>>, <<LineBreak>>, <<Blank, LineBreak, Blank>>, <<"a.example">>,
   <<"a.example", LineBreak, "http://", "b.example">>,
   <<LineBreak, Blank, LineBreak, "http://", "a.example", LineBreak, "b.example">>,
   <<Blank, "a.example", LineBreak, "b.example">>,
   <<"ftp://", "a.example", LineBreak>>}

\* text.startsWith(prefix) for a prefix that is one token
StartsWith(text, prefix) == text # <<>> /\ text[1] = prefix

\* variant: the text is passed on as it is
FormatNothing(text) == text

\* let formattedUrl = text; if it starts with neither prefix, `https://${text}`
Format(text) ==
  IF ~StartsWith(text, "http://") /\ ~StartsWith(text, "https://")
  THEN <<"https://">> \o text
  ELSE text

\* text.trim()
RECURSIVE TrimStart(_)
TrimStart(text) ==
  IF text # <<>> /\ text[1] \in {Blank, LineBreak} THEN TrimStart(Tail(text))
  ELSE text
RECURSIVE TrimEnd(_)
TrimEnd(text) ==
  IF text # <<>> /\ text[Len(text)] \in {Blank, LineBreak}
  THEN TrimEnd(SubSeq(text, 1, Len(text) - 1))
  ELSE text
Trim(text) == TrimEnd(TrimStart(text))

\* text.split('\n') : the pieces between the line breaks, empty ones too
RECURSIVE Split(_)
Split(text) ==
  IF \A i \in 1 .. Len(text) : text[i] # LineBreak THEN <<text>>
  ELSE LET k == CHOOSE i \in 1 .. Len(text) :
                  text[i] = LineBreak /\ \A j \in 1 .. i - 1 : text[j] # LineBreak
       IN <<SubSeq(text, 1, k - 1)>> \o Split(SubSeq(text, k + 1, Len(text)))

\* batchUrls.split('\n').filter(u => u.trim())
RECURSIVE Filter(_)
Filter(lines) ==
  IF lines = <<>> THEN <<>>
  ELSE IF Trim(Head(lines)) # <<>> THEN <<Head(lines)>> \o Filter(Tail(lines))
  ELSE Filter(Tail(lines))

\* variant: the lines are taken as they are, blank ones too
UrlListUnfiltered(text) == Split(text)

\* const urlList = batchUrls.split('\n').filter(u => u.trim())
UrlList(text) == Filter(Split(text))

\* urlPattern.test(text): an optional scheme prefix, then a dotted host
urlPattern(text) ==
  \/ Len(text) = 1 /\ text[1] \in Hosts
  \/ Len(text) = 2 /\ text[1] \in Schemes /\ text[2] \in Hosts

\* the string checkUrl receives for a text of the form
ToUrl(text) ==
  IF text = <<>> THEN EmptyStr
  ELSE IF text[1] \in Schemes
  THEN LET scheme == IF text[1] = "http://" THEN "http" ELSE "https"
       IN IF Len(text) = 2 /\ text[2] \in Hosts
          THEN Abs(scheme, text[2], <<>>, TRUE)
          ELSE Str("badhttp", scheme, "", <<>>, 0, FALSE)
  ELSE Rel(0, <<"z">>)

\* the last run of a submit handler: the handler, the text it read and the
\* arguments of its onSubmit calls
Submit(handler, input, calls) ==
  [handler |-> handler, input |-> input, calls |-> calls]
NoSubmit == Submit("none", <<>>, <<>>)

\* ------------------------------------------------------- the state of Home
\* result: RedirectResult | null, of the result only redirectCount is read
Result(isNull, count) == [isNull |-> isNull, redirectCount |-> count]
NullResult == Result(TRUE, 0)
Results == {Result(FALSE, 0), Result(FALSE, 2)}
\* error: string | null
Error(isNull, message) == [isNull |-> isNull, message |-> message]
NullError == Error(TRUE, "")

\* what fetch('/api/check-url') settles with: a rejection, or a response
\* whose body is the JSON of a result (200), the JSON of {error} (400, 500),
\* JSON without an error field, or no JSON at all (a gateway page)
Fetched(kind, ok, bodyKind, data, message) ==
  [kind |-> kind, ok |-> ok, bodyKind |-> bodyKind, data |-> data,
   message |-> message]
FetchOutcomes ==
  {Fetched("reject", FALSE, "none", NullResult, "Failed to fetch")}
  \cup {Fetched("response", TRUE, "result", r, "") : r \in Results}
  \cup {Fetched("response", FALSE, "error", NullResult, m) :
          m \in {"URL is required", "Unexpected end of JSON input"}}
  \cup {Fetched("response", FALSE, "noError", NullResult, ""),
        Fetched("response", FALSE, "notJson", NullResult,
                "Unexpected token < in JSON at position 0")}

\* the fetch of handleCheckUrl: none, awaited, or its response.json() awaited
Fetch(where, u, response) == [pc |-> where, url |-> u, response |-> response]
NoFetch == Fetch("none", <<>>, Fetched("none", FALSE, "none", NullResult, ""))

\* ------------------------------------------------------------------ actions
Init ==
  /\ pc = "idle"
  /\ url = Undefined
  /\ options = Opt(FALSE, TRUE, FALSE, 0)
  /\ mergedOptions = defaultOptions
  /\ result = [initialUrl |-> Undefined, finalUrl |-> Undefined, steps |-> <<>>,
               redirectCount |-> 0, error |-> NoError]
  /\ currentUrl = Undefined
  /\ redirectCount = 0
  /\ maxRedirects = 0
  /\ server = [u \in {} |-> Undefined]
  /\ requests = <<>>
  /\ exitPath = "none"
  /\ postPc = "idle"
  /\ body = NoBody
  /\ httpResponse = NoResponse
  /\ moduleDefaults = defaultOptions
  /\ current = 1
  /\ parked = NotCalled
  /\ overlapped = FALSE
  /\ badge = NoBadge
  /\ form = [mode |-> "single", url |-> <<>>, batchUrls |-> <<>>,
             error |-> "", isValid |-> "null"]
  /\ submitted = NoSubmit
  /\ page = [mounted |-> FALSE, loading |-> FALSE, result |-> NullResult,
             error |-> NullError, activeTab |-> "chain", fetch |-> NoFetch]

\* the function ends: the promise resolves with the result, or rejects
Complete(c) ==
  /\ pc' = IF c.kind = "return" THEN "returned" ELSE "rejected"
  /\ result' = c.value
  /\ exitPath' = c.path

\* axios.get(u, ...) is issued and awaited
Request(u, where) ==
  /\ pc' = where
  /\ requests' = Append(requests, u)

\* variant: the validation stands before the try block, its throw escapes
ValidateUncaught(res, u) == Throw(res, "invalid")

\* the validation of the url at the head of the try block
Validate(res, u) ==
  IF u.kind = "nonstring"
  THEN Catch(res, PlainError("url.startsWith is not a function"), u, "invalid")
  ELSE Catch(res, PlainError(InvalidUrlMessage), u, "invalid")

\* checkUrl(u, o), from the call to the first await or to the return
checkUrl(u, o) ==
  LET merged == Merge(o)
      res == [initialUrl |-> u, finalUrl |-> u, steps |-> <<>>,
              redirectCount |-> 0, error |-> NoError]
      mr == LoopBudget(merged)
  IN /\ pc = "idle"
     /\ url' = u
     /\ options' = o
     /\ mergedOptions' = merged
     /\ moduleDefaults' = DefaultsAfterMerge(moduleDefaults, o)
     /\ UNCHANGED server
     /\ IF u.kind = "nonstring" \/ Falsy(u) \/ ~StartsWithHttp(u)
        THEN /\ Complete(Validate(res, u))
             /\ UNCHANGED <<currentUrl, redirectCount, maxRedirects, requests>>
        ELSE IF ~merged.followRedirects
        THEN /\ Request(u, "awaitSingle")
             /\ result' = res
             /\ UNCHANGED <<currentUrl, redirectCount, maxRedirects, exitPath>>
        ELSE /\ currentUrl' = u
             /\ redirectCount' = 0
             /\ maxRedirects' = mr
             /\ IF mr > 0
                THEN /\ Request(u, "awaitLoop")
                     /\ result' = res
                     /\ UNCHANGED exitPath
                ELSE /\ Complete(AfterLoop(res, mr, 0, merged, u, "guard"))
                     /\ UNCHANGED requests

\* the single request of followRedirects = false settles
RespondSingle(o) ==
  /\ pc = "awaitSingle"
  /\ o \in OutcomesOf(url)
  /\ server' = (url :> o) @@ server
  /\ IF o.kind = "response"
     THEN Complete(Return([result EXCEPT !.steps = Push(result.steps, Step(url, o)),
                                         !.finalUrl = url],
                          "single"))
     ELSE Complete(Catch(result, AxiosError(o, url), url, "fault"))
  /\ UNCHANGED <<url, options, mergedOptions, currentUrl, redirectCount,
                 maxRedirects, requests, moduleDefaults>>

\* the request of one loop iteration settles; the iteration runs to its end
\* and the loop to the next request or to the return
RespondLoop(o) ==
  LET res1 == [result EXCEPT !.steps = Push(result.steps, Step(currentUrl, o))]
      terminal == EndOfChain(o)
      next == Resolve(o.location, currentUrl)
      rc == redirectCount + 1
      mr == maxRedirects - 1
      circular == Visited(res1.steps, next.href)
  IN /\ pc = "awaitLoop"
     /\ o \in OutcomesOf(currentUrl)
     /\ server' = (currentUrl :> o) @@ server
     /\ UNCHANGED <<url, options, mergedOptions, moduleDefaults>>
     /\ IF o.kind # "response"
        THEN /\ Complete(Catch(result, AxiosError(o, currentUrl), url, "fault"))
             /\ UNCHANGED <<currentUrl, redirectCount, maxRedirects, requests>>
        ELSE IF terminal
        THEN /\ Complete(AfterLoop(res1, maxRedirects, redirectCount,
                                   mergedOptions, url, "terminal"))
             /\ UNCHANGED <<currentUrl, redirectCount, maxRedirects, requests>>
        ELSE IF ~next.ok
        THEN /\ Complete(Catch(res1, PlainError("Invalid URL"), url, "resolve"))
             /\ UNCHANGED <<currentUrl, redirectCount, maxRedirects, requests>>
        ELSE /\ currentUrl' = next.href
             /\ redirectCount' = rc
             /\ maxRedirects' = mr
             /\ IF circular
                THEN /\ Complete(AfterLoop([res1 EXCEPT !.error = Err(CircularMessage)],
                                           mr, rc, mergedOptions, url, "circular"))
                     /\ UNCHANGED requests
                ELSE IF mr > 0
                THEN /\ Request(next.href, "awaitLoop")
                     /\ result' = res1
                     /\ UNCHANGED exitPath
                ELSE /\ Complete(AfterLoop(res1, mr, rc, mergedOptions, url, "guard"))
                     /\ UNCHANGED requests

Next ==
  \/ \E u \in Urls, o \in OptionsSet :
       checkUrl(u, o) /\ UNCHANGED <<routeVars, concVars, viewVars>>
  \/ \E o \in Outcomes : RespondSingle(o) /\ UNCHANGED <<routeVars, concVars, viewVars>>
  \/ \E o \in Outcomes : RespondLoop(o) /\ UNCHANGED <<routeVars, concVars, viewVars>>

Spec == Init /\ [][Next]_vars

\* the request in flight settles: axios.get resolves with the response or
\* rejects, at the latest when the timeout of the request expires
Settle ==
  \E o \in Outcomes :
    (RespondSingle(o) \/ RespondLoop(o))
      /\ UNCHANGED <<routeVars, concVars, viewVars>>

\* one invocation whose requests all settle
LiveSpec == Spec /\ WF_vars(Settle)

\* POST(request), from the call to the awaited checkUrl or to the response
POST(b) ==
  /\ postPc = "idle"
  /\ body' = b
  /\ IF ~b.parses
     THEN /\ postPc' = "responded"
          /\ httpResponse' = ServerError("Unexpected end of JSON input")
          /\ UNCHANGED <<pc, url, options, mergedOptions, result, currentUrl,
                         redirectCount, maxRedirects, server, requests, exitPath,
                         moduleDefaults>>
     ELSE IF b.isNull
     THEN /\ postPc' = "responded"
          /\ httpResponse' = ServerError("Cannot destructure property 'url' of 'body' as it is null.")
          /\ UNCHANGED <<pc, url, options, mergedOptions, result, currentUrl,
                         redirectCount, maxRedirects, server, requests, exitPath,
                         moduleDefaults>>
     ELSE IF UrlMissing(b)
     THEN /\ postPc' = "responded"
          /\ httpResponse' = BadRequest
          /\ UNCHANGED <<pc, url, options, mergedOptions, result, currentUrl,
                         redirectCount, maxRedirects, server, requests, exitPath,
                         moduleDefaults>>
     ELSE /\ checkUrl(b.url, b.options)
          /\ postPc' = "awaitCheckUrl"
          /\ UNCHANGED httpResponse

\* the awaited checkUrl has settled: the code after it, or the catch block
PostResume ==
  /\ postPc = "awaitCheckUrl"
  /\ pc \in {"returned", "rejected"}
  /\ postPc' = "responded"
  /\ httpResponse' = IF pc = "returned" THEN Respond(result)
                     ELSE ServerError(result.error.text)
  /\ UNCHANGED <<pc, url, options, mergedOptions, result, currentUrl,
                 redirectCount, maxRedirects, server, requests, exitPath, body,
                 moduleDefaults>>

RouteNext ==
  \/ \E b \in Bodies : POST(b) /\ UNCHANGED <<concVars, viewVars>>
  \/ \E o \in Outcomes : RespondSingle(o) /\ UNCHANGED <<routeVars, concVars, viewVars>>
  \/ \E o \in Outcomes : RespondLoop(o) /\ UNCHANGED <<routeVars, concVars, viewVars>>
  \/ PostResume /\ UNCHANGED <<concVars, viewVars>>

RouteSpec == Init /\ [][RouteNext]_vars

\* ------------------------------------------------- two invocations at once
\* the inputs of the two invocations and the answers of the shared server
ConcUrls == {EmptyStr, A1, AXY}
ConcOptions ==
  {Opt(FALSE, TRUE, FALSE, 0), Opt(TRUE, FALSE, FALSE, 0),
   Opt(FALSE, TRUE, TRUE, 1), Opt(FALSE, TRUE, TRUE, 2)}
ConcOutcomes ==
  [kind : {"response"}, status : {200, 301},
   location : {Undefined, A1, B0, Rel(1, <<"z">>)}, message : {""}]
  \cup [kind : {"fault"}, status : {0}, location : {Undefined},
        message : {"timeout of 10000ms exceeded"}]

\* the locals of the invocation that runs
Running ==
  Locals(pc, url, options, mergedOptions, result, currentUrl, redirectCount,
         maxRedirects, requests, exitPath)

\* variant: redirectCount and maxRedirects are module-level variables, the
\* two invocations count on the same pair
SwitchSharingCounters ==
  /\ pc' = parked.pc
  /\ url' = parked.url
  /\ options' = parked.options
  /\ mergedOptions' = parked.mergedOptions
  /\ result' = parked.result
  /\ currentUrl' = parked.currentUrl
  /\ requests' = parked.requests
  /\ exitPath' = parked.exitPath
  /\ parked' = Running
  /\ current' = 3 - current
  /\ overlapped' = (overlapped
                      \/ (pc \in {"awaitSingle", "awaitLoop"}
                            /\ parked.pc \in {"awaitSingle", "awaitLoop"}))
  /\ UNCHANGED <<redirectCount, maxRedirects, server, moduleDefaults,
                 routeVars, viewVars>>

\* the event loop leaves the running invocation where it stands (at an
\* await, at its end, or before its call) and goes on with the other one
Switch ==
  /\ pc' = parked.pc
  /\ url' = parked.url
  /\ options' = parked.options
  /\ mergedOptions' = parked.mergedOptions
  /\ result' = parked.result
  /\ currentUrl' = parked.currentUrl
  /\ redirectCount' = parked.redirectCount
  /\ maxRedirects' = parked.maxRedirects
  /\ requests' = parked.requests
  /\ exitPath' = parked.exitPath
  /\ parked' = Running
  /\ current' = 3 - current
  /\ overlapped' = (overlapped
                      \/ (pc \in {"awaitSingle", "awaitLoop"}
                            /\ parked.pc \in {"awaitSingle", "awaitLoop"}))
  /\ UNCHANGED <<server, moduleDefaults, routeVars, viewVars>>

ConcNext ==
  \/ \E u \in ConcUrls, o \in ConcOptions :
       checkUrl(u, o) /\ UNCHANGED <<routeVars, concVars, viewVars>>
  \/ \E o \in ConcOutcomes : RespondSingle(o) /\ UNCHANGED <<routeVars, concVars, viewVars>>
  \/ \E o \in ConcOutcomes : RespondLoop(o) /\ UNCHANGED <<routeVars, concVars, viewVars>>
  \/ Switch

ConcSpec == Init /\ [][ConcNext]_vars

\* ------------------------------------------------- the status of a step
\* a step with status code c is rendered: StatusBadge takes its class from
\* getStatusCodeClass and StepStatusText its text from getStatusDescription
RenderStep(c) ==
  /\ badge' = Badge(TRUE, c, getStatusCodeClass(c), getStatusDescription(c))
  /\ UNCHANGED <<pc, url, options, mergedOptions, result, currentUrl,
                 redirectCount, maxRedirects, server, requests, exitPath,
                 routeVars, moduleDefaults, concVars, form, submitted, page>>

StatusNext == \E c \in StatusCodes : RenderStep(c)

StatusSpec == Init /\ [][StatusNext]_vars

\* ---------------------------------------------------------- the browser side
traceVars == <<pc, url, options, mergedOptions, result, currentUrl,
               redirectCount, maxRedirects, server, requests, exitPath,
               routeVars, moduleDefaults, concVars>>

\* the effect on [url]: isValid and error follow the pattern test
Validity(text, old) ==
  IF text = <<>> THEN [old EXCEPT !.isValid = "null", !.error = ""]
  ELSE IF urlPattern(text) THEN [old EXCEPT !.isValid = "true", !.error = ""]
  ELSE [old EXCEPT !.isValid = "false", !.error = "Please enter a valid URL"]

\* Home mounts: the effect reads the cached result, if there is one
Mount(cached) ==
  /\ ~page.mounted
  /\ page' = [page EXCEPT !.mounted = TRUE, !.result = cached]
  /\ UNCHANGED <<traceVars, badge, form, submitted>>

\* onChange of the url input (disabled while isLoading), then the effect
setUrl(text) ==
  /\ page.mounted /\ ~page.loading
  /\ form.mode = "single"
  /\ text # form.url
  /\ form' = Validity(text, [form EXCEPT !.url = text])
  /\ UNCHANGED <<traceVars, badge, submitted, page>>

\* a quick action button (disabled while isLoading), then the effect when
\* the url changed
handleQuickAction(actionUrl) ==
  /\ page.mounted /\ ~page.loading
  /\ form.mode = "single"
  /\ LET set == [form EXCEPT !.url = actionUrl, !.isValid = "true", !.error = ""]
     IN form' = IF actionUrl # form.url THEN Validity(actionUrl, set) ELSE set
  /\ UNCHANGED <<traceVars, badge, submitted, page>>

\* onChange of the batch text area (disabled while isLoading)
setBatchUrls(text) ==
  /\ page.mounted /\ ~page.loading
  /\ form.mode = "batch"
  /\ text # form.batchUrls
  /\ form' = [form EXCEPT !.batchUrls = text]
  /\ UNCHANGED <<traceVars, badge, submitted, page>>

\* the tabs Single URL / Batch Check
setMode(m) ==
  /\ page.mounted
  /\ form' = [form EXCEPT !.mode = m]
  /\ UNCHANGED <<traceVars, badge, submitted, page>>

\* variant: the start of a check leaves the shown result in place
handleCheckUrlKeepsResult(u) ==
  page' = [page EXCEPT !.loading = TRUE, !.error = NullError,
                       !.fetch = Fetch("awaitFetch", u, NoFetch.response)]

\* handleCheckUrl(u) from its call to the await of fetch
handleCheckUrl(u) ==
  page' = [page EXCEPT !.loading = TRUE, !.error = NullError,
                       !.result = NullResult,
                       !.fetch = Fetch("awaitFetch", u, NoFetch.response)]

\* handleSubmit: the submit of the single form (its button is disabled
\* while isLoading); onSubmit is handleCheckUrl
handleSubmit ==
  /\ page.mounted /\ ~page.loading
  /\ form.mode = "single"
  /\ IF form.url = <<>>
     THEN /\ form' = [form EXCEPT !.error = "Please enter a URL"]
          /\ submitted' = Submit("handleSubmit", form.url, <<>>)
          /\ UNCHANGED page
     ELSE /\ form' = [form EXCEPT !.error = ""]
          /\ submitted' = Submit("handleSubmit", form.url, <<Format(form.url)>>)
          /\ handleCheckUrl(Format(form.url))
  /\ UNCHANGED <<traceVars, badge>>

\* handleBatchSubmit: the submit of the batch form
handleBatchSubmit ==
  LET urlList == UrlList(form.batchUrls)
  IN /\ page.mounted /\ ~page.loading
     /\ form.mode = "batch"
     /\ IF form.batchUrls = <<>>
        THEN /\ form' = [form EXCEPT !.error = "Please enter at least one URL"]
             /\ submitted' = Submit("handleBatchSubmit", form.batchUrls, <<>>)
             /\ UNCHANGED page
        ELSE IF Len(urlList) = 0
        THEN /\ form' = [form EXCEPT !.error = "Please enter at least one valid URL"]
             /\ submitted' = Submit("handleBatchSubmit", form.batchUrls, <<>>)
             /\ UNCHANGED page
        ELSE /\ form' = [form EXCEPT !.error = ""]
             /\ submitted' = Submit("handleBatchSubmit", form.batchUrls,
                                    <<Format(urlList[1])>>)
             /\ handleCheckUrl(Format(urlList[1]))
     /\ UNCHANGED <<traceVars, badge>>

\* the end of handleCheckUrl by its catch block: setError, then finally
CheckFailed(message) ==
  page' = [page EXCEPT !.error = Error(FALSE, message), !.loading = FALSE,
                       !.fetch = NoFetch]

\* the awaited fetch settles: a rejection goes to the catch block, a
\* response to the await of response.json()
FetchSettles(r) ==
  /\ page.fetch.pc = "awaitFetch"
  /\ IF r.kind = "reject"
     THEN CheckFailed(r.message)
     ELSE page' = [page EXCEPT !.fetch = Fetch("awaitJson", page.fetch.url, r)]
  /\ UNCHANGED <<traceVars, badge, form, submitted>>

\* the awaited response.json() settles and handleCheckUrl runs to its end
JsonSettles ==
  LET r == page.fetch.response
  IN /\ page.fetch.pc = "awaitJson"
     /\ IF r.bodyKind = "notJson" THEN CheckFailed(r.message)
        ELSE IF ~r.ok
        THEN CheckFailed(IF r.bodyKind = "error" THEN r.message
                         ELSE "Failed to check URL")
        ELSE page' = [page EXCEPT
                        !.result = r.data,
                        !.activeTab = IF r.data.redirectCount > 0 THEN "chain"
                                      ELSE "headers",
                        !.loading = FALSE,
                        !.fetch = NoFetch]
     /\ UNCHANGED <<traceVars, badge, form, submitted>>

\* onCheckAnother: Dismiss under an error, Back under a shown result
onCheckAnother ==
  /\ page.mounted
  /\ ~page.error.isNull \/ (~page.loading /\ ~page.result.isNull)
  /\ page' = [page EXCEPT !.result = NullResult, !.error = NullError]
  /\ UNCHANGED <<traceVars, badge, form, submitted>>

UiNext ==
  \/ \E cached \in {NullResult} \cup Results : Mount(cached)
  \/ \E text \in UrlTexts : setUrl(text)
  \/ \E actionUrl \in quickActionUrls : handleQuickAction(actionUrl)
  \/ \E text \in BatchTexts : setBatchUrls(text)
  \/ \E m \in {"single", "batch"} : setMode(m)
  \/ handleSubmit
  \/ handleBatchSubmit
  \/ \E r \in FetchOutcomes : FetchSettles(r)
  \/ JsonSettles
  \/ onCheckAnother

UiSpec == Init /\ [][UiNext]_vars

\* the fetch in flight settles and so does the reading of its body
UiLiveSpec ==
  UiSpec /\ WF_vars(\E r \in FetchOutcomes : FetchSettles(r)) /\ WF_vars(JsonSettles)

\* ------------------------------------------------------- vocabulary of claims
Returned == pc = "returned"
Follows == mergedOptions.followRedirects
Hops == result.steps
LastHop == Hops[Len(Hops)]
HopUrls == {Hops[i].url : i \in 1 .. Len(Hops)}
Distinct(seq) == \A i, j \in 1 .. Len(seq) : seq[i] = seq[j] => i = j

\* a Location header with a value is present
HasLocation(x) == x.location.kind \notin {"undefined", "empty"}

\* glossary, terminal response: status < 300, status >= 400, or a 3xx
\* that lacks a Location
TerminalResponse(x) == x.status < 300 \/ x.status >= 400 \/ ~HasLocation(x)

\* a recorded hop that is a redirect, and the URL its Location resolves to
RedirectHop(h) ==
  /\ h.statusCode >= 300
  /\ h.statusCode < 400
  /\ HasLocation(h)
  /\ Resolve(h.location, h.url).ok
TargetOf(h) == Resolve(h.location, h.url).href

\* every request of the trace so far was answered by a response
NoFault ==
  \A i \in 1 .. Len(requests) :
    requests[i] \in DOMAIN server /\ server[requests[i]].kind = "response"

\* the URLs a follower of the static server visits from u, at most n of them;
\* it stops at a URL the server was never asked for, at a fault, at a
\* terminal response and at an unresolvable Location
RECURSIVE ServerChain(_, _)
ServerChain(u, n) ==
  IF n = 0 THEN <<>>
  ELSE IF u \notin DOMAIN server THEN <<u>>
  ELSE LET o == server[u]
       IN IF o.kind # "response" \/ TerminalResponse(o)
             \/ ~Resolve(o.location, u).ok
          THEN <<u>>
          ELSE <<u>> \o ServerChain(Resolve(o.location, u).href, n - 1)

\* more than any trace of the model requests
ChainFuel == 12

\* the server holds, from the input url, a chain of redirects over pairwise
\* distinct URLs that ends at a terminal response
CleanChain(chain) ==
  /\ chain # <<>>
  /\ Len(chain) < ChainFuel
  /\ Distinct(chain)
  /\ \A i \in 1 .. Len(chain) :
       chain[i] \in DOMAIN server /\ server[chain[i]].kind = "response"
  /\ TerminalResponse(server[chain[Len(chain)]])

\* the trace concluded in a clean terminal response: the last request was
\* answered by a terminal response and that response is the last hop
CleanTerminal ==
  /\ requests # <<>>
  /\ Hops # <<>>
  /\ LET u == requests[Len(requests)]
     IN /\ u \in DOMAIN server
        /\ server[u].kind = "response"
        /\ TerminalResponse(server[u])
        /\ LastHop = [url |-> u, statusCode |-> server[u].status,
                      location |-> server[u].location]

\* ------------------------------------------------------------------- claims

\* C1: checkUrl never throws or rejects: for every url, every options object
\* and every behaviour of the server it returns a well-formed result, and a
\* failure (invalid url, fault, unresolvable Location, no hop at all) shows
\* in the error field.
WellFormed(res) ==
  /\ res.initialUrl = url
  /\ res.finalUrl.kind # "undefined"
  /\ res.redirectCount \in Nat
  /\ \A i \in 1 .. Len(res.steps) :
       res.steps[i].url.kind # "undefined" /\ res.steps[i].statusCode \in Statuses
  /\ res.error.set => res.error.text # ""
C1_NeverThrows ==
  /\ pc # "rejected"
  /\ Returned =>
       /\ WellFormed(result)
       /\ (exitPath \in {"invalid", "fault", "resolve", "noSteps"}
             => result.error.set)
C1_Witness ==
  /\ Returned
  /\ exitPath = "invalid"
  /\ result.error.set

\* C2: followRedirects = true, a chain of k redirects over pairwise distinct
\* URLs that ends at a terminal response, 0 <= k < maxRedirects, no fault:
\* the result has k+1 hops in request order, redirectCount = k, finalUrl is
\* the URL of the terminal hop (initialUrl when k = 0), error is unset.
C2_CleanChainResult ==
  LET chain == ServerChain(url, ChainFuel)
      k == Len(chain) - 1
  IN (Returned /\ Follows /\ StartsWithHttp(url) /\ CleanChain(chain)
        /\ k < mergedOptions.maxRedirects)
     => /\ Len(Hops) = k + 1
        /\ \A i \in 1 .. Len(Hops) :
             Hops[i] = [url |-> chain[i], statusCode |-> server[chain[i]].status,
                        location |-> server[chain[i]].location]
        /\ result.redirectCount = k
        /\ result.finalUrl = chain[k + 1]
        /\ (k = 0 => result.finalUrl = result.initialUrl)
        /\ ~result.error.set
C2_Witness ==
  /\ Returned
  /\ Follows
  /\ CleanChain(ServerChain(url, ChainFuel))
  /\ Len(ServerChain(url, ChainFuel)) = 3
  /\ mergedOptions.maxRedirects = 3
  /\ result.redirectCount = 2

\* C3: for every positive integer maxRedirects and followRedirects = true,
\* error is unset exactly when the trace concluded in a clean terminal
\* response (a final 4xx/5xx never sets error); invalid url, network fault,
\* loop detection and limit exhaustion set it.
C3_ErrorIffNotCleanTerminal ==
  (Returned /\ Follows /\ mergedOptions.maxRedirects >= 1)
  => /\ ~result.error.set <=> CleanTerminal
     /\ exitPath \in {"invalid", "fault", "circular", "exhausted"}
          => result.error.set
C3_Witness ==
  /\ Returned
  /\ Follows
  /\ mergedOptions.maxRedirects >= 1
  /\ Len(Hops) = 2
  /\ LastHop.statusCode = 404
  /\ ~result.error.set

\* C4: no visited URL is recorded or requested again: the urls of the hops
\* of a result are pairwise distinct, no URL is requested twice, and when a
\* redirect resolves to the url of a recorded hop the trace stops with no
\* further request (A -> B -> A gives the hops [A, B]).
C4_NoUrlTwice ==
  /\ Distinct(requests)
  /\ Returned => Distinct([i \in 1 .. Len(Hops) |-> Hops[i].url])
  /\ (Returned /\ NoFault /\ Hops # <<>> /\ RedirectHop(LastHop)
        /\ TargetOf(LastHop) \in HopUrls)
     => [i \in 1 .. Len(Hops) |-> Hops[i].url] = requests
C4_Witness ==
  /\ Returned
  /\ url = A1
  /\ Len(Hops) = 2
  /\ Hops[2].url = B1
  /\ RedirectHop(LastHop)
  /\ TargetOf(LastHop) = A1
  /\ requests = <<A1, B1>>

\* the trace ran out of budget on fresh redirects: no fault occurred, every
\* hop is a redirect and every target is a URL not recorded before
AllFreshRedirects ==
  /\ NoFault
  /\ Hops # <<>>
  /\ Len(Hops) = Len(requests)
  /\ \A i \in 1 .. Len(Hops) :
       /\ RedirectHop(Hops[i])
       /\ TargetOf(Hops[i]) \notin {Hops[j].url : j \in 1 .. i}
       /\ i < Len(Hops) => TargetOf(Hops[i]) = Hops[i + 1].url

\* the last response redirects to a URL already visited in the trace
LoopClosed ==
  /\ NoFault
  /\ Hops # <<>>
  /\ Len(Hops) = Len(requests)
  /\ RedirectHop(LastHop)
  /\ TargetOf(LastHop) \in HopUrls

\* C5: whenever a redirect target repeats a URL already visited, for every
\* positive maxRedirects and every position of the repeat (also on the
\* redirect that brings the budget to 0), error is "Circular redirect
\* detected".
C5_LoopReportsCircular ==
  (Returned /\ Follows /\ mergedOptions.maxRedirects >= 1 /\ LoopClosed)
  => result.error = Err(CircularMessage)

\* C6: for A -> B -> A traced with default options redirectCount is 1.
C6_LoopCountsOne ==
  (Returned /\ ~options.hasFollow /\ ~options.hasMax /\ LoopClosed
     /\ Len(Hops) = 2 /\ Hops[1].url = url /\ RedirectHop(Hops[1])
     /\ TargetOf(Hops[1]) = Hops[2].url /\ TargetOf(Hops[2]) = Hops[1].url)
  => result.redirectCount = 1

\* C7: with maxRedirects = N >= 1 and a server that always redirects to a
\* fresh URL the trace stops with redirectCount = N and N+1 hops.
C7_LimitHops ==
  (Returned /\ Follows /\ mergedOptions.maxRedirects >= 1 /\ AllFreshRedirects)
  => /\ result.redirectCount = mergedOptions.maxRedirects
     /\ Len(Hops) = mergedOptions.maxRedirects + 1

\* C8: when the loop exits because maxRedirects = N >= 1 is exhausted while
\* the last response still redirects to a fresh URL, error is "Maximum
\* number of redirects (N) reached" with the configured N; the message is
\* never set when the loop exited through the terminal-response break.
C8_LimitError ==
  /\ (Returned /\ Follows /\ mergedOptions.maxRedirects >= 1 /\ AllFreshRedirects)
       => result.error = MaxRedirectsMessage(mergedOptions.maxRedirects)
  /\ (Returned /\ Follows /\ CleanTerminal)
       => result.error.text # MaxRedirectsMessage(0).text
C8_Witness ==
  /\ Returned
  /\ Follows
  /\ mergedOptions.maxRedirects = 2
  /\ AllFreshRedirects
  /\ result.error.set
  /\ result.error.n = 2

\* C9: for every integer maxRedirects >= 0 in options, followRedirects =
\* true and every server, at most maxRedirects redirects are followed and
\* redirectCount <= maxRedirects.
C9_BoundedByMaxRedirects ==
  (Follows /\ options.hasMax /\ options.maxRedirects >= 0)
  => /\ Len(requests) <= options.maxRedirects + 1
     /\ Returned => result.redirectCount <= options.maxRedirects

\* C10: followRedirects = false and a valid url: one request is issued, and
\* for any response status (a 3xx with Location too) the result is the one
\* hop with that status and the raw Location, redirectCount = 0, finalUrl =
\* url, error unset; the Location is never followed.
C10_SingleRequest ==
  (options.hasFollow /\ ~options.followRedirects /\ StartsWithHttp(url))
  => /\ Len(requests) <= 1
     /\ Returned => requests = <<url>>
     /\ (Returned /\ NoFault)
          => /\ Hops = <<[url |-> url, statusCode |-> server[url].status,
                          location |-> server[url].location]>>
             /\ result.redirectCount = 0
             /\ result.finalUrl = url
             /\ ~result.error.set
C10_Witness ==
  /\ Returned
  /\ options.hasFollow
  /\ ~options.followRedirects
  /\ NoFault
  /\ Len(Hops) = 1
  /\ Hops[1].statusCode = 301
  /\ HasLocation(Hops[1])

\* the string s begins with "http://" or "https://"
HttpPrefixed(s) == s.kind \in {"abs", "badhttp"} /\ s.scheme \in {"http", "https"}
\* the value is a string, as the signature of checkUrl asks
IsString(s) == s.kind \notin {"undefined", "nonstring"}

\* C11: if url is empty or does not begin with "http://" or "https://",
\* checkUrl issues no request and returns an empty hop list, redirectCount
\* 0, finalUrl = url and the error "Invalid URL. Please include the
\* protocol ..." (which begins with "Invalid URL"), whatever the options.
C11_InvalidUrl ==
  (pc # "idle" /\ IsString(url) /\ ~HttpPrefixed(url))
  => /\ Returned
     /\ requests = <<>>
     /\ Hops = <<>>
     /\ result.redirectCount = 0
     /\ result.finalUrl = url
     /\ result.error = Err(InvalidUrlMessage)
C11_Witness ==
  /\ Returned
  /\ url = Rel(0, <<"z">>)
  /\ options.hasFollow
  /\ ~options.followRedirects
  /\ result.error = Err(InvalidUrlMessage)

\* some request of the trace was answered by a response, be it one that a
\* fault carries
SomeResponse ==
  \E i \in 1 .. Len(requests) :
    requests[i] \in DOMAIN server
      /\ server[requests[i]].kind \in {"response", "faultResponse"}

\* C12 (as claimed): in every result returned by checkUrl the hops list is
\* non-empty.
C12_HopsNonEmpty == Returned => Hops # <<>>

\* C12 (amended): the hops list of a returned result is non-empty exactly
\* when some request of the trace was answered by a response; it is empty
\* for an invalid url, for a first request that fails without a response
\* and when no request is issued.
C12_HopsNonEmptyIffResponse == Returned => (Hops # <<>> <=> SomeResponse)
C12_Witness ==
  /\ Returned
  /\ exitPath = "fault"
  /\ Len(requests) = 1
  /\ server[url].kind = "faultResponse"
  /\ Len(Hops) = 1

\* the request issued last failed: a network fault or a timeout
LastRequestFailed ==
  /\ requests # <<>>
  /\ requests[Len(requests)] \in DOMAIN server
  /\ server[requests[Len(requests)]].kind # "response"
FaultOfLastRequest == server[requests[Len(requests)]]

\* C13: when a network fault aborts the trace after j redirects have been
\* followed (j+1 requests issued, the last one failed), the returned
\* redirectCount is j; A redirects to B and the request to B fails:
\* redirectCount = 1.
C13_FaultKeepsCount ==
  (Returned /\ Follows /\ LastRequestFailed)
  => result.redirectCount = Len(requests) - 1

\* C14: on every return path initialUrl is the input url and finalUrl is
\* the url of the last recorded hop, or the input url when no hop was
\* recorded; finalUrl is never the URL of a redirect target that was not
\* requested or whose request failed without leaving a hop.
C14_FinalUrl ==
  Returned
  => /\ result.initialUrl = url
     /\ result.finalUrl = IF Hops # <<>> THEN LastHop.url ELSE url
     /\ Hops # <<>>
          => /\ \E i \in 1 .. Len(requests) : requests[i] = result.finalUrl
             /\ result.finalUrl \in DOMAIN server
             /\ server[result.finalUrl].kind # "fault"
C14_Witness ==
  /\ Returned
  /\ exitPath = "exhausted"
  /\ Len(Hops) = 2
  /\ result.finalUrl = Hops[2].url
  /\ result.finalUrl # url
  /\ currentUrl # result.finalUrl

\* C15: a failed hop ends the trace with no retry: once a request has
\* failed no further request is issued, no URL is requested twice in a
\* trace, and the step on which the request fails returns the result with
\* error = the fault's message and the hops recorded before the fault as
\* they were, in order.
C15_NoRetry ==
  [][/\ Distinct(requests')
     /\ LastRequestFailed => requests' = requests
     /\ (~LastRequestFailed /\ LastRequestFailed')
          => /\ pc' = "returned"
             /\ requests' = requests
             /\ result'.error = Err(FaultOfLastRequest'.message)
             /\ Len(result'.steps) >= Len(result.steps)
             /\ SubSeq(result'.steps, 1, Len(result.steps)) = result.steps]_vars
C15_Witness ==
  /\ Returned
  /\ LastRequestFailed
  /\ FaultOfLastRequest.kind = "fault"
  /\ Len(requests) = 3
  /\ Len(Hops) = 2
  /\ result.error = Err("timeout of 10000ms exceeded")

\* C16: whenever the returned result has no error, redirectCount equals
\* the number of hops minus one.
C16_CountIsHopsMinusOne ==
  (Returned /\ ~result.error.set) => result.redirectCount = Len(Hops) - 1
C16_Witness ==
  /\ Returned
  /\ ~result.error.set
  /\ Len(Hops) = 3
  /\ result.redirectCount = 2

\* the requests of the trace that are not settled yet
InFlight == {i \in 1 .. Len(requests) : requests[i] \notin DOMAIN server}

\* C17: the requests of one trace are strictly sequential: at most one is
\* in flight, a request is issued only when every earlier one is settled
\* (by a response or a failure), and the hops stand in the result in the
\* order in which their requests were issued.
C17_Sequential ==
  /\ Cardinality(InFlight) <= 1
  /\ \A i \in 1 .. Len(requests) - 1 : requests[i] \in DOMAIN server
  /\ InFlight # {} <=> pc \in {"awaitSingle", "awaitLoop"}
  /\ Len(Hops) <= Len(requests)
  /\ \A i \in 1 .. Len(Hops) : Hops[i].url = requests[i]
C17_Witness ==
  /\ pc = "awaitLoop"
  /\ Len(requests) = 3
  /\ InFlight = {3}
  /\ Len(Hops) = 2

\* the body parsed to an object
ObjectBody == body.parses /\ ~body.isNull
\* ---- C18
\* what one invocation of checkUrl(u, o) comes to when it runs alone against
\* the answers srv, with the module-level defaultOptions as written in the
\* source; "unknown" when srv lacks the answer of a url the run would request
Unknown == [kind |-> "unknown", value |-> EmptyResult, path |-> "unknown"]

RECURSIVE SoloLoop(_, _, _, _, _, _, _)
SoloLoop(res, cur, rc, mr, merged, u, srv) ==
  IF mr <= 0 THEN AfterLoop(res, mr, rc, merged, u, "guard")
  ELSE IF cur \notin DOMAIN srv THEN Unknown
  ELSE LET o == srv[cur]
           res1 == [res EXCEPT !.steps = Push(res.steps, Step(cur, o))]
           next == Resolve(o.location, cur)
       IN IF o.kind # "response" THEN Catch(res, AxiosError(o, cur), u, "fault")
          ELSE IF EndOfChain(o)
          THEN AfterLoop(res1, mr, rc, merged, u, "terminal")
          ELSE IF ~next.ok
          THEN Catch(res1, PlainError("Invalid URL"), u, "resolve")
          ELSE IF Visited(res1.steps, next.href)
          THEN AfterLoop([res1 EXCEPT !.error = Err(CircularMessage)],
                         mr - 1, rc + 1, merged, u, "circular")
          ELSE SoloLoop(res1, next.href, rc + 1, mr - 1, merged, u, srv)

SoloRun(u, o, srv) ==
  LET merged == Spread(defaultOptions, o)
      res == [initialUrl |-> u, finalUrl |-> u, steps |-> <<>>,
              redirectCount |-> 0, error |-> NoError]
  IN IF u.kind = "nonstring" \/ Falsy(u) \/ ~StartsWithHttp(u)
     THEN Validate(res, u)
     ELSE IF ~merged.followRedirects
     THEN IF u \notin DOMAIN srv THEN Unknown
          ELSE IF srv[u].kind = "response"
          THEN Return([res EXCEPT !.steps = Push(res.steps, Step(u, srv[u])),
                                  !.finalUrl = u], "single")
          ELSE Catch(res, AxiosError(srv[u], u), u, "fault")
     ELSE SoloLoop(res, u, 0, LoopBudget(merged), merged, u, srv)

\* a finished invocation with locals l holds the result of its run alone
AsAlone(l) ==
  l.pc \in {"returned", "rejected"} =>
    LET alone == SoloRun(l.url, l.options, server)
    IN /\ alone.kind = (IF l.pc = "returned" THEN "return" ELSE "throw")
       /\ alone.value = l.result

\* a single invocation ends as SoloRun says
SoloRunIsTheRun == AsAlone(Running)

\* C18: two invocations of checkUrl interleaved at their awaits do not
\* interfere: each one that has finished holds the result it would hold had
\* it run alone against the same server answers, and the module-level
\* defaultOptions object is never modified.
C18_NoInterference ==
  /\ moduleDefaults = defaultOptions
  /\ AsAlone(Running)
  /\ AsAlone(parked)

\* both invocations were suspended at a request at the same time, both
\* followed a redirect under different options, and both have returned
C18_Witness ==
  /\ overlapped
  /\ pc = "returned" /\ parked.pc = "returned"
  /\ Len(result.steps) >= 2 /\ Len(parked.result.steps) >= 2
  /\ options # parked.options
  /\ result # parked.result


\* ---- C23
\* both invocations were called with the same url and the same options
SameCall == url = parked.url /\ options = parked.options

\* C23: two runs of checkUrl with the same url and options against the same
\* static server return the same hops (url, statusCode, location), the same
\* redirectCount, finalUrl and error, one after the other or interleaved.
C23_Deterministic ==
  (pc = "returned" /\ parked.pc = "returned" /\ SameCall) =>
    /\ result.steps = parked.result.steps
    /\ result.redirectCount = parked.result.redirectCount
    /\ result.finalUrl = parked.result.finalUrl
    /\ result.error = parked.result.error

\* two runs of the same call that followed two redirects and were both
\* waiting for a response at the same time
C23_Witness ==
  /\ pc = "returned" /\ parked.pc = "returned" /\ SameCall
  /\ overlapped
  /\ Follows
  /\ Len(result.steps) >= 3
  /\ result.redirectCount >= 2

\* ---- C24
\* the text begins with "http://" or "https://"
HasPrefix(text) == text # <<>> /\ text[1] \in {"http://", "https://"}

\* the inputs the last submit may have passed on: the url input, or a line
\* of the batch text
Candidates ==
  IF submitted.handler = "handleSubmit" THEN {submitted.input}
  ELSE {Split(submitted.input)[k] : k \in 1 .. Len(Split(submitted.input))}

\* the validation of checkUrl rejects the string
TracerRejects(s) == s.kind = "nonstring" \/ Falsy(s) \/ ~StartsWithHttp(s)

\* C24: the form normalizes before the tracer is invoked: every url that
\* handleSubmit or handleBatchSubmit passes to onSubmit begins with
\* "http://" or "https://"; it is the input unchanged when the input has a
\* prefix and "https://" + input exactly when it has none; it is the url of
\* the check in flight and never fails the validation of the tracer.
C24_FormNormalizes ==
  \A i \in 1 .. Len(submitted.calls) :
    LET u == submitted.calls[i]
    IN /\ HasPrefix(u)
       /\ \E raw \in Candidates :
            /\ raw # <<>>
            /\ HasPrefix(raw) => u = raw
            /\ ~HasPrefix(raw) => u = <<"https://">> \o raw
       /\ ~TracerRejects(ToUrl(u))
       /\ page.fetch.pc # "none" => page.fetch.url = u

\* "a.example" was submitted as "https://a.example" and is being checked
C24_Witness ==
  /\ submitted.handler = "handleSubmit"
  /\ submitted.input = <<"a.example">>
  /\ submitted.calls = <<(<<"https://", "a.example">>)>>
  /\ page.fetch.pc = "awaitFetch"
  /\ page.fetch.url = <<"https://", "a.example">>

\* ---- C29
\* the lines of the batch text and those of them that are not blank
BatchLines == Split(form.batchUrls)
IsBlankLine(line) == \A i \in 1 .. Len(line) : line[i] = Blank
NonBlank == {k \in 1 .. Len(BatchLines) : ~IsBlankLine(BatchLines[k])}
FirstNonBlank ==
  BatchLines[CHOOSE k \in NonBlank : \A j \in NonBlank : k <= j]
Normalized(line) == IF HasPrefix(line) THEN line ELSE <<"https://">> \o line

\* a step of handleBatchSubmit that changed anything
BatchSubmitStep ==
  /\ form.mode = "batch" /\ form'.mode = "batch"
  /\ ~page.loading
  /\ submitted' # submitted \/ form'.error # form.error \/ page'.loading

\* C29: batch mode submits only one url: handleBatchSubmit calls onSubmit at
\* most once, with the first non-blank line of the text after the scheme
\* normalization, whatever lines follow; for a text that is empty or has
\* only blank lines it calls onSubmit zero times and sets an error message.
C29_BatchSubmitsFirstLine ==
  [][BatchSubmitStep =>
       /\ submitted'.handler = "handleBatchSubmit"
       /\ submitted'.input = form.batchUrls
       /\ Len(submitted'.calls) <= 1
       /\ IF NonBlank = {}
          THEN /\ submitted'.calls = <<>>
               /\ form'.error # ""
               /\ page' = page
          ELSE /\ submitted'.calls = <<Normalized(FirstNonBlank)>>
               /\ form'.error = ""
               /\ page'.loading
               /\ page'.fetch.url = Normalized(FirstNonBlank)]_vars

\* of the text "\n \nhttp://a.example\nb.example" the third line was
\* submitted, the fourth was not
C29_Witness ==
  /\ submitted.handler = "handleBatchSubmit"
  /\ submitted.input = <<LineBreak, Blank, LineBreak, "http://", "a.example",
                         LineBreak, "b.example">>
  /\ submitted.calls = <<(<<"http://", "a.example">>)>>
  /\ page.loading

\* ---- C30
\* a check starts, a check finishes
CheckStarts == ~page.loading /\ page'.loading
CheckFinishes == page.loading /\ ~page'.loading
\* the check that finishes had an ok response
OkResponse == page.fetch.pc = "awaitJson" /\ page.fetch.response.ok

\* C30: the check lifecycle of the page: the start of a check sets loading
\* and clears result and error; when the check finishes, by success, by an
\* HTTP error status or by a failed fetch, exactly one of result and error
\* is non-null, result on an ok response and error otherwise; while loading
\* (one check in flight) result and error are both null; and loading is
\* eventually false again.
C30_CheckLifecycle ==
  /\ [][/\ CheckStarts =>
             /\ page'.result.isNull /\ page'.error.isNull
             /\ page'.fetch.pc = "awaitFetch"
             /\ submitted'.calls = <<page'.fetch.url>>
        /\ CheckFinishes =>
             /\ page'.result.isNull # page'.error.isNull
             /\ ~page'.result.isNull <=> OkResponse
             /\ page'.fetch.pc = "none"]_vars
  /\ [](/\ page.loading <=> page.fetch.pc # "none"
        /\ page.loading => page.result.isNull /\ page.error.isNull)
  /\ page.loading ~> ~page.loading

\* a check that the server answered with 400 has finished: the error is
\* shown, no result
C30_Witness ==
  /\ ~page.loading
  /\ submitted.calls # <<>>
  /\ page.result.isNull
  /\ page.error = Error(FALSE, "URL is required")

\* ---- C25
\* a recorded hop that is a terminal response
TerminalHop(h) == h.statusCode < 300 \/ h.statusCode >= 400 \/ ~HasLocation(h)

\* C25: the trace stops at the first terminal response: once a hop with
\* status < 300, status >= 400 or no Location is recorded, no further
\* request is issued, that hop is the last hop of the result and
\* redirectCount is not incremented for it.
C25_StopsAtTerminal ==
  \A i \in 1 .. Len(Hops) :
    TerminalHop(Hops[i]) =>
      /\ i = Len(Hops)
      /\ Returned
      /\ Len(requests) = i
      /\ requests[i] = Hops[i].url
      /\ result.redirectCount = i - 1

\* a 404 that carries a Location ends a trace of three hops
C25_Witness ==
  /\ Returned
  /\ Follows
  /\ Len(Hops) = 3
  /\ LastHop.statusCode = 404
  /\ HasLocation(LastHop)
  /\ result.redirectCount = 2

\* ---- C26
\* the hops recorded from a response of the server (the catch block records
\* the response of a fault without its Location)
FromResponse(h) == h.url \in DOMAIN server /\ server[h.url].kind = "response"

\* C26: with followRedirects = true the first hop is the input url, every
\* hop but the last is a 3xx with a Location, each later hop (and request)
\* goes to the standard resolution of the previous raw Location against the
\* previous hop's url (../z at https://a.example/x/y gives
\* https://a.example/z), and the location field keeps the raw header value.
C26_ChainLinkage ==
  Follows =>
    /\ Hops # <<>> => Hops[1].url = url
    /\ \A i \in 1 .. Len(Hops) - 1 :
         /\ Hops[i].statusCode >= 300 /\ Hops[i].statusCode < 400
         /\ HasLocation(Hops[i])
         /\ Resolve(Hops[i].location, Hops[i].url).ok
         /\ Hops[i + 1].url = TargetOf(Hops[i])
    /\ \A i \in 1 .. Len(Hops) :
         /\ i < Len(requests) => requests[i + 1] = TargetOf(Hops[i])
         /\ FromResponse(Hops[i]) =>
              Hops[i].location = server[Hops[i].url].location
         /\ (Hops[i].url = AXY /\ Hops[i].location = Rel(1, <<"z">>)
               /\ i < Len(requests))
              => requests[i + 1] = AZ

\* the hop at https://a.example/x/y with Location ../z was followed by the
\* hop at https://a.example/z
C26_Witness ==
  /\ Returned
  /\ Follows
  /\ \E i \in 1 .. Len(Hops) - 1 :
       /\ Hops[i].url = AXY
       /\ Hops[i].location = Rel(1, <<"z">>)
       /\ Hops[i + 1].url = AZ

\* ---- C27
RequestSet == {requests[i] : i \in 1 .. Len(requests)}

\* the bounds on requests and hops that hold for a valid and an invalid url
RequestBounds ==
  /\ (Follows /\ mergedOptions.maxRedirects >= 1)
       => /\ Len(requests) <= mergedOptions.maxRedirects
          /\ (Returned /\ Len(Hops) = mergedOptions.maxRedirects
                /\ RedirectHop(LastHop) /\ TargetOf(LastHop) \notin HopUrls)
               => TargetOf(LastHop) \notin RequestSet
  /\ Len(Hops) <= Len(requests)

\* C27 as stated: the request count is at most maxRedirects with
\* followRedirects = true and maxRedirects >= 1, exactly one with
\* followRedirects = false, and the hops never outnumber the requests.
C27_RequestCount ==
  /\ RequestBounds
  /\ (Returned /\ ~Follows) => Len(requests) = 1

\* C27: every trace terminates and its request count is bounded: when every
\* request settles, a called checkUrl returns; it issues at most
\* maxRedirects requests with followRedirects = true and maxRedirects >= 1;
\* with followRedirects = false it issues exactly one request for a url
\* that passes the validation and none for one that fails it; the hops never
\* outnumber the requests.
C27_TerminatesBounded ==
  /\ [](/\ RequestBounds
        /\ (pc # "idle" /\ ~Follows) => Len(requests) <= 1
        /\ (Returned /\ ~Follows) =>
             (Len(requests) = 1 <=> (IsString(url) /\ HttpPrefixed(url))))
  /\ (pc # "idle") ~> Returned

\* a trace with maxRedirects = 2 that returned after two requests, the
\* target of the second redirect not requested
C27_Witness ==
  /\ Returned
  /\ Follows
  /\ options.hasMax /\ options.maxRedirects = 2
  /\ Len(requests) = 2
  /\ RedirectHop(LastHop)
  /\ TargetOf(LastHop) \notin RequestSet

\* ---- C28
\* the trace ended by the loop detection or by the exhausted redirect limit
EndedByLoopOrLimit == exitPath \in {"circular", "exhausted"}

\* C28: in every returned result redirectCount is a non-negative integer, 0
\* when no hop was recorded, and otherwise between hops - 1 and hops; it is
\* hops exactly when the trace ended by loop detection or by the exhausted
\* redirect limit (the self-redirect A -> A gives one hop and count 1).
C28_CountRange ==
  Returned =>
    /\ result.redirectCount \in Nat
    /\ Hops = <<>> => result.redirectCount = 0
    /\ Hops # <<>> =>
         /\ Len(Hops) - 1 <= result.redirectCount
         /\ result.redirectCount <= Len(Hops)
         /\ result.redirectCount = Len(Hops) <=> EndedByLoopOrLimit
    /\ (Follows /\ Len(Hops) = 1 /\ RedirectHop(Hops[1])
          /\ TargetOf(Hops[1]) = Hops[1].url)
         => result.redirectCount = 1

\* the self-redirect: one hop, count 1
C28_Witness ==
  /\ Returned
  /\ Follows
  /\ Len(Hops) = 1
  /\ RedirectHop(Hops[1])
  /\ TargetOf(Hops[1]) = Hops[1].url
  /\ result.redirectCount = 1

\* ---- C21
\* the standard reason phrases of the codes the specification lists
ReasonPhrase(c) ==
  CASE c = 305 -> "Use Proxy"
    [] c = 306 -> "(Unused)"
    [] OTHER -> statusMap(c)
ListedCodes ==
  {200, 201, 202, 204} \cup (300 .. 308)
    \cup {400, 401, 403, 404, 405, 408, 429} \cup (500 .. 504)

\* C21: getStatusDescription gives each code among 200, 201, 202, 204,
\* 300..308, 400, 401, 403, 404, 405, 408, 429, 500..504 its standard reason
\* phrase and every other code "Unknown Status".
C21_DescribesListedCodes ==
  badge.shown =>
    badge.text = (IF badge.statusCode \in ListedCodes
                  THEN ReasonPhrase(badge.statusCode)
                  ELSE "Unknown Status")

\* ---- C22
\* the category of the half-open hundreds 200..599, none outside
Category(c) ==
  IF c >= 200 /\ c < 300 THEN "status-2xx"
  ELSE IF c >= 300 /\ c < 400 THEN "status-3xx"
  ELSE IF c >= 400 /\ c < 500 THEN "status-4xx"
  ELSE IF c >= 500 /\ c < 600 THEN "status-5xx"
  ELSE ""

\* C22: getStatusCodeClass buckets a code by [200,300), [300,400), [400,500),
\* [500,600) and gives the empty class to every code outside 200..599,
\* below 200 as well as at or above 600 (799).
C22_BucketsByHundreds ==
  badge.shown => badge.className = Category(badge.statusCode)

C20_TraceAnswers200 ==
  (postPc = "responded" /\ ObjectBody /\ body.url \notin {Undefined, EmptyStr})
  => /\ httpResponse.status = 200
     /\ httpResponse.hasResult
     /\ httpResponse.result = result
     /\ Returned
     /\ result.initialUrl = body.url
C20_Witness ==
  /\ postPc = "responded"
  /\ ObjectBody
  /\ httpResponse.status = 200
  /\ httpResponse.result.error = Err(CircularMessage)
  /\ Len(httpResponse.result.steps) = 2

====
